---- MODULE Spec2Model ----
(***************************************************************************)
(* Model of config/chassis_modules.py: the 'config chassis modules         *)
(* shutdown/startup' commands, their smartswitch state-transition guard    *)
(* and the fabric-card reconciliation that follows an approved request.    *)
(*                                                                         *)
(* One command invocation is a process p.  Each step of a process is one   *)
(* access to a shared resource (a CONFIG_DB read or write, the chassis     *)
(* state DB, a systemctl call); code between two accesses belongs to the   *)
(* step that follows it.  Spec runs the invocations one after the other,   *)
(* SpecConc lets two of them interleave.                                   *)
(***************************************************************************)
EXTENDS Integers, Sequences, FiniteSets, TLC

VARIABLES
    smartswitch,   \* utilities_common.chassis.is_smartswitch()
    dpus,          \* utilities_common.chassis.get_all_dpus()
    cfgdb,         \* CONFIG_DB table CHASSIS_MODULE: module name -> field map
    cfgdb0,        \* the table at start-up (never changes)
    chassisdb,     \* CHASSIS_STATE_DB table CHASSIS_FABRIC_ASIC_TABLE: key -> name
    swss,          \* systemd: is swss@N.service (and its peers) active, per ASIC N
    now,           \* datetime.utcnow(), in seconds
    proc           \* the command invocations

vars == <<smartswitch, dpus, cfgdb, cfgdb0, chassisdb, swss, now, proc>>

----------------------------------------------------------------------------
(* Program constants *)

TIMEOUT_SECS == 10
TRANSITION_TIMEOUT == 240

(* Bounds of the model *)

MaxSlack == 1

(* The instants of the clock: second 0 and the seconds around the expiry   *)
(* of a transition begun then.                                             *)
Instants == {0} \cup {TRANSITION_TIMEOUT + k : k \in 0..MaxSlack}

----------------------------------------------------------------------------
(* Module names.  A name is <<prefix, number>>: "FABRIC-CARD1" is          *)
(* <<"FABRIC-CARD", 1>>, "ROUTER7" is <<"ROUTER", 7>>.                     *)

DPU0 == <<"DPU", 0>>
FABRIC_CARD1 == <<"FABRIC-CARD", 1>>
FABRIC_CARD2 == <<"FABRIC-CARD", 2>>
ROUTER7 == <<"ROUTER", 7>>

ModuleNames == {DPU0, FABRIC_CARD1, ROUTER7}

ModulePrefixes == {"SUPERVISOR", "LINE-CARD", "FABRIC-CARD", "DPU"}

startswith(name, prefixes) == name[1] \in prefixes

(* The DPU lists a platform may declare (device_info.get_dpu_list()). *)
DpuLists == {{DPU0}, ModuleNames}

----------------------------------------------------------------------------
(* Field maps of the CHASSIS_MODULE table.  A field map is a function from *)
(* the fields present to their values; the empty map is what get_entry     *)
(* returns for a key that has no record.                                   *)

NoEntry == [f \in {} |-> ""]

(* datetime.isoformat() and datetime.fromisoformat(): a timestamp string is *)
(* <<"iso", t>> when it is the ISO form of second t, <<"junk", 0>> when it  *)
(* is no timestamp.                                                         *)
isoformat(t) == <<"iso", t>>
JunkTime == <<"junk", 0>>
ValueError == -1
fromisoformat(s) == IF s[1] = "iso" THEN s[2] ELSE ValueError

Entry(admin, tip, tst) ==
    [f \in {"admin_status", "state_transition_in_progress", "transition_start_time"} |->
        CASE f = "admin_status" -> admin
          [] f = "state_transition_in_progress" -> tip
          [] f = "transition_start_time" -> tst]

Without(fvs, f) == [g \in (DOMAIN fvs) \ {f} |-> fvs[g]]
With(fvs, f, v) == [g \in (DOMAIN fvs) \cup {f} |-> IF g = f THEN v ELSE fvs[g]]

(* The records a module may have when the first command runs. *)
InitEntries ==
    {NoEntry}
    \cup {[admin_status |-> a] : a \in {"up", "down"}}
    \cup {[admin_status |-> a, comment |-> "x"] : a \in {"up", "down"}}
    \cup {[admin_status |-> a, state_transition_in_progress |-> "False"] : a \in {"up", "down"}}
    \cup {Entry(a, "True", isoformat(0)) : a \in {"up", "down"}}
    \cup {Entry(a, "True", JunkTime) : a \in {"up", "down"}}
    \cup {[state_transition_in_progress |-> "True", transition_start_time |-> isoformat(0)]}

(* ConfigDBConnector.get_entry / set_entry: set_entry replaces the whole   *)
(* record; None (and the empty map) removes it.                            *)
None == NoEntry
get_entry(db, key) == db[key]

(* set_entry updating the fields given and keeping the others (mod_entry). *)
set_entry_merge(db, key, data) ==
    [db EXCEPT ![key] =
        IF data = None THEN None
        ELSE [f \in (DOMAIN @) \cup (DOMAIN data) |->
                 IF f \in DOMAIN data THEN data[f] ELSE @[f]]]

set_entry(db, key, data) == [db EXCEPT ![key] = data]

----------------------------------------------------------------------------
(* The pure functions of chassis_modules.py, over a snapshot of the table. *)

KeyError == "KeyError"

(* The platform defaults of lines 32-35 exchanged. *)
get_config_module_state_swapped(db, name) ==
    LET fvs == get_entry(db, name) IN
    IF DOMAIN fvs = {}
    THEN (IF smartswitch THEN "up" ELSE "down")
    ELSE IF "admin_status" \in DOMAIN fvs THEN fvs["admin_status"] ELSE KeyError

get_config_module_state(db, name) ==
    LET fvs == get_entry(db, name) IN
    IF DOMAIN fvs = {}
    THEN (IF smartswitch THEN "down" ELSE "up")
    ELSE IF "admin_status" \in DOMAIN fvs THEN fvs["admin_status"] ELSE KeyError

get_state_transition_in_progress(db, name) ==
    LET fvs == get_entry(db, name) IN
    IF "state_transition_in_progress" \in DOMAIN fvs
    THEN fvs["state_transition_in_progress"]
    ELSE "False"

(* The comparison of line 70 written with >= . *)
is_transition_timed_out_ge(db, name, utcnow) ==
    LET fvs == get_entry(db, name) IN
    IF DOMAIN fvs = {} THEN FALSE
    ELSE IF "transition_start_time" \notin DOMAIN fvs THEN FALSE
    ELSE LET start_time == fromisoformat(fvs["transition_start_time"]) IN
         IF start_time = ValueError THEN FALSE
         ELSE utcnow - start_time >= TRANSITION_TIMEOUT

(* The subtraction of line 70 the other way round. *)
is_transition_timed_out_reversed(db, name, utcnow) ==
    LET fvs == get_entry(db, name) IN
    IF DOMAIN fvs = {} THEN FALSE
    ELSE IF "transition_start_time" \notin DOMAIN fvs THEN FALSE
    ELSE LET start_time == fromisoformat(fvs["transition_start_time"]) IN
         IF start_time = ValueError THEN FALSE
         ELSE start_time - utcnow > TRANSITION_TIMEOUT

(* The except branch of lines 68-69 returning True. *)
is_transition_timed_out_junk_true(db, name, utcnow) ==
    LET fvs == get_entry(db, name) IN
    IF DOMAIN fvs = {} THEN FALSE
    ELSE IF "transition_start_time" \notin DOMAIN fvs THEN FALSE
    ELSE LET start_time == fromisoformat(fvs["transition_start_time"]) IN
         IF start_time = ValueError THEN TRUE
         ELSE utcnow - start_time > TRANSITION_TIMEOUT

is_transition_timed_out(db, name, utcnow) ==
    LET fvs == get_entry(db, name) IN
    IF DOMAIN fvs = {} THEN FALSE
    ELSE IF "transition_start_time" \notin DOMAIN fvs THEN FALSE
    ELSE LET start_time == fromisoformat(fvs["transition_start_time"]) IN
         IF start_time = ValueError THEN FALSE
         ELSE utcnow - start_time > TRANSITION_TIMEOUT

(* The entry built afresh instead of from the record read at line 49. *)
transition_entry_fresh(entry, value, utcnow) ==
    IF value = "True"
    THEN [state_transition_in_progress |-> value, transition_start_time |-> isoformat(utcnow)]
    ELSE [state_transition_in_progress |-> value]

(* Line 54 left out: the timestamp stays when the flag is cleared. *)
transition_entry_keeps_time(entry, value, utcnow) ==
    LET e == With(entry, "state_transition_in_progress", value) IN
    IF value = "True"
    THEN With(e, "transition_start_time", isoformat(utcnow))
    ELSE e

(* The record set_state_transition_in_progress writes back (lines 50-54). *)
transition_entry(entry, value, utcnow) ==
    LET e == With(entry, "state_transition_in_progress", value) IN
    IF value = "True"
    THEN With(e, "transition_start_time", isoformat(utcnow))
    ELSE Without(e, "transition_start_time")

(* The approved request updating the record it read instead of replacing it. *)
request_fvs_no_time(state, utcnow) ==
    IF smartswitch
    THEN [admin_status |-> state, state_transition_in_progress |-> "True"]
    ELSE IF state = "down" THEN [admin_status |-> "down"] ELSE None

(* Startup clearing the record on every platform. *)
request_fvs_startup_clears(state, utcnow) ==
    IF state = "up" THEN None
    ELSE IF smartswitch THEN Entry(state, "True", isoformat(utcnow))
    ELSE [admin_status |-> "down"]

(* Non-smartswitch startup writing admin_status instead of clearing. *)
request_fvs_sets_up(state, utcnow) ==
    IF smartswitch
    THEN Entry(state, "True", isoformat(utcnow))
    ELSE [admin_status |-> state]

(* The record an approved request writes (lines 173-181, 216-224). *)
request_fvs(state, utcnow) ==
    IF smartswitch
    THEN Entry(state, "True", isoformat(utcnow))
    ELSE IF state = "down" THEN [admin_status |-> "down"] ELSE None

(* The test of lines 159 and 206 left out: the guard runs on every platform. *)
uses_guard_always == TRUE

(* if is_smartswitch(): (lines 159, 206) *)
uses_guard == smartswitch

(* click.Choice(get_all_dpus()) if is_smartswitch() else str (lines 145, 195) *)
choice_ok(name) == smartswitch => name \in dpus

(* The prefix test of line 152 left out, as it is in startup. *)
name_ok_no_prefix(cmd, name) == choice_ok(name)

(* The argument checks that run before the command's first store access:   *)
(* the click.Choice type, and for shutdown the prefix test of line 152.    *)
name_ok(cmd, name) ==
    /\ choice_ok(name)
    /\ cmd = "shutdown" => startswith(name, ModulePrefixes)

(* The state a command compares with and writes: 'down' in shutdown,      *)
(* 'up' in startup (lines 155, 174, 184; 202, 217, 227).                  *)
target_same(cmd) == "down"

target(cmd) == IF cmd = "shutdown" THEN "down" ELSE "up"

----------------------------------------------------------------------------
(* CHASSIS_FABRIC_ASIC_TABLE in CHASSIS_STATE_DB.  A key is the digit       *)
(* string that follows "CHASSIS_FABRIC_ASIC_TABLE|asic"; a row is the value *)
(* of its name field, NoRow when the table has no such key.                 *)

NoRow == <<"", 0>>
AsicKeys == {<<3>>, <<1, 2>>}

InitTables ==
    { [k \in AsicKeys |-> FABRIC_CARD1],
      [k \in AsicKeys |-> IF k = <<3>> THEN FABRIC_CARD1 ELSE FABRIC_CARD2],
      [k \in AsicKeys |-> IF k = <<3>> THEN FABRIC_CARD2 ELSE NoRow] }

(* int(re.search(r"(\d+)$", asic_key).group()) *)
RECURSIVE int(_)
int(digits) ==
    IF Len(digits) = 0 THEN 0
    ELSE 10 * int(SubSeq(digits, 1, Len(digits) - 1)) + digits[Len(digits)]

(* str(asic) *)
RECURSIVE str(_)
str(n) == IF n < 10 THEN <<n>> ELSE Append(str(n \div 10), n % 10)

(* The key built from the last digit of the ASIC id. *)
asic_key_last_digit(asic) == <<asic % 10>>

(* "CHASSIS_FABRIC_ASIC_TABLE|asic" + str(asic) *)
asic_key(asic) == str(asic)

keys(db) == {k \in DOMAIN db : db[k] # NoRow}
delete(db, key) == [k \in DOMAIN db |-> IF k = key THEN NoRow ELSE db[k]]

(* All orders in which the keys of a set can be enumerated. *)
Orders(S) ==
    {l \in UNION {[1..n -> S] : n \in {Cardinality(S)}} :
        \A a, b \in 1..Len(l) : a # b => l[a] # l[b]}

(* The test of line 92 left out: every key of the table is taken. *)
get_asic_list_from_db_any_name(db, name) ==
    {[j \in 1..Len(l) |-> int(l[j])] : l \in Orders(keys(db))}

(* The loop of line 90 left at the first matching key. *)
get_asic_list_from_db_first(db, name) ==
    LET matching == {k \in keys(db) : db[k] = name} IN
    IF matching = {} THEN {<<>>} ELSE {<<int(k)>> : k \in matching}

(* get_asic_list_from_db: the lists it can return, one for each order in   *)
(* which chassisdb.keys() may enumerate the table.                         *)
get_asic_list_from_db(db, name) ==
    LET matching == {k \in keys(db) : db[k] = name} IN
    {[j \in 1..Len(l) |-> int(l[j])] : l \in Orders(matching)}

Systemctl(verb, asic) == [op |-> "systemctl", verb |-> verb, asic |-> asic]
IsActiveEvent(asic, rc) == [op |-> "is-active", asic |-> asic, rc |-> rc]
DeleteEvent(key) == [op |-> "delete", key |-> key]

(* The swss@N.service units of the platform's fabric ASICs, and what       *)
(* systemd does on a command: stop ends the service unless the stop fails, *)
(* start brings it up, is-active exits 0 for an active service and 3 for   *)
(* an inactive one.                                                        *)
AsicIds == {int(k) : k \in AsicKeys}
systemctl_stop(units, asic, failed) == [units EXCEPT ![asic] = @ /\ failed]
systemctl_start(units, asic) == [units EXCEPT ![asic] = TRUE]
systemctl_is_active(units, asic) == IF units[asic] THEN 0 ELSE 3

----------------------------------------------------------------------------
(* Command invocations *)

Procs == {1, 2}
Cmds == {"shutdown", "startup"}

IdleProc ==
    [pc |-> "idle", cmd |-> "shutdown", name |-> DPU0, entry |-> NoEntry,
     counter |-> 0, asic_list |-> <<>>, i |-> 0,
     events |-> <<>>, reads |-> 0, outcome |-> "", rc |-> 0,
     rec0 |-> NoEntry, t0 |-> 0]

Idle(p) == proc[p].pc \in {"idle", "done"}

SetEvent(name, data, utcnow) ==
    [op |-> "set_entry", key |-> name, data |-> data, at |-> utcnow]

(* The invocation ends: the message it reported and its exit status. *)
Finish(r, outcome, rc) == [r EXCEPT !.pc = "done", !.outcome = outcome, !.rc = rc]

TypeOK ==
    /\ smartswitch \in BOOLEAN
    /\ now \in Instants
    /\ \A p \in Procs : proc[p].pc \in
         {"idle", "done", "get_state", "get_tip", "timed_out", "clear_get",
          "clear_set", "write", "poll", "asic_list", "stop", "is_active",
          "delete", "restart", "start"}

Init ==
    /\ smartswitch \in BOOLEAN
    /\ dpus \in DpuLists
    /\ \E m \in ModuleNames, e \in InitEntries :
         cfgdb = [n \in ModuleNames |-> IF n = m THEN e ELSE NoEntry]
    /\ cfgdb0 = cfgdb
    /\ chassisdb \in InitTables
    /\ swss = [a \in AsicIds |-> TRUE]
    /\ now = 0
    /\ proc = [p \in Procs |-> IdleProc]

(* Time passes: the clock moves on to a later instant. *)
Tick ==
    /\ \E t \in Instants : t > now /\ now' = t
    /\ UNCHANGED <<smartswitch, dpus, cfgdb, cfgdb0, chassisdb, swss, proc>>

(* A command is invoked; click parses the argument and, for shutdown, the  *)
(* prefix test runs (lines 145-153, 195-200).                              *)
Invoke(p, cmd, name) ==
    /\ Idle(p)
    /\ LET r == [IdleProc EXCEPT !.cmd = cmd, !.name = name,
                                 !.rec0 = cfgdb[name], !.t0 = now] IN
       proc' = [proc EXCEPT ![p] =
                  IF name_ok(cmd, name)
                  THEN [r EXCEPT !.pc = "get_state"]
                  ELSE Finish(r, "usage_error", 2)]
    /\ UNCHANGED <<smartswitch, dpus, cfgdb, cfgdb0, chassisdb, swss, now>>

(* get_config_module_state(...) == target (lines 155-157, 202-204) *)
GetState(p) ==
    LET r == proc[p]
        s == get_config_module_state(cfgdb, r.name)
        r1 == [r EXCEPT !.reads = @ + 1] IN
    /\ r.pc = "get_state"
    /\ proc' = [proc EXCEPT ![p] =
                  IF s = KeyError THEN Finish(r1, "KeyError", 1)
                  ELSE IF s = target(r.cmd) THEN Finish(r1, "already", 0)
                  ELSE IF uses_guard THEN [r1 EXCEPT !.pc = "get_tip"]
                  ELSE [r1 EXCEPT !.pc = "write"]]
    /\ UNCHANGED <<smartswitch, dpus, cfgdb, cfgdb0, chassisdb, swss, now>>

(* The flag compared with the lower-case spelling. *)
flag_set_lower(value) == value = "true"

(* ... == 'True': the comparison of lines 160 and 207 *)
flag_set(value) == value = "True"

(* get_state_transition_in_progress(...) == 'True' (lines 160, 207) *)
GetTip(p) ==
    LET r == proc[p]
        r1 == [r EXCEPT !.reads = @ + 1] IN
    /\ r.pc = "get_tip"
    /\ proc' = [proc EXCEPT ![p] =
                  IF flag_set(get_state_transition_in_progress(cfgdb, r.name))
                  THEN [r1 EXCEPT !.pc = "timed_out"]
                  ELSE [r1 EXCEPT !.pc = "write"]]
    /\ UNCHANGED <<smartswitch, dpus, cfgdb, cfgdb0, chassisdb, swss, now>>

(* The return of lines 169 and 213 left out: the message is echoed and the *)
(* request goes on.                                                        *)
after_timed_out_no_return(r, timed_out) ==
    IF timed_out THEN [r EXCEPT !.pc = "clear_get"]
    ELSE [r EXCEPT !.pc = "write", !.outcome = "in_progress"]

(* Lines 162-169, 208-213: a timed-out transition is cleared, any other    *)
(* one ends the command with 'state transition is already in progress'.    *)
after_timed_out(r, timed_out) ==
    IF timed_out THEN [r EXCEPT !.pc = "clear_get"]
    ELSE Finish(r, "in_progress", 0)

(* is_transition_timed_out(...) (lines 162-169, 208-213) *)
TimedOut(p) ==
    LET r == proc[p]
        r1 == [r EXCEPT !.reads = @ + 1] IN
    /\ r.pc = "timed_out"
    /\ proc' = [proc EXCEPT ![p] =
                  after_timed_out(r1, is_transition_timed_out(cfgdb, r.name, now))]
    /\ UNCHANGED <<smartswitch, dpus, cfgdb, cfgdb0, chassisdb, swss, now>>

(* set_state_transition_in_progress(..., 'False'): the read of line 49 *)
ClearGet(p) ==
    LET r == proc[p] IN
    /\ r.pc = "clear_get"
    /\ proc' = [proc EXCEPT ![p] =
                  [r EXCEPT !.pc = "clear_set", !.reads = @ + 1,
                            !.entry = get_entry(cfgdb, r.name)]]
    /\ UNCHANGED <<smartswitch, dpus, cfgdb, cfgdb0, chassisdb, swss, now>>

(* set_state_transition_in_progress(..., 'False'): the write of line 55 *)
ClearSet(p) ==
    LET r == proc[p]
        e == transition_entry(r.entry, "False", now) IN
    /\ r.pc = "clear_set"
    /\ cfgdb' = set_entry(cfgdb, r.name, e)
    /\ proc' = [proc EXCEPT ![p] =
                  [r EXCEPT !.pc = "write", !.entry = e,
                            !.events = Append(@, SetEvent(r.name, e, now))]]
    /\ UNCHANGED <<smartswitch, dpus, cfgdb0, chassisdb, swss, now>>

(* The reconciliation run for every module. *)
is_fabric_card_any(name) == TRUE

(* chassis_module_name.startswith("FABRIC-CARD") (lines 183, 226) *)
is_fabric_card(name) == startswith(name, {"FABRIC-CARD"})

(* config_db.set_entry('CHASSIS_MODULE', name, fvs) (lines 173-181, 216-224) *)
Write(p) ==
    LET r == proc[p]
        fvs == request_fvs(target(r.cmd), now) IN
    /\ r.pc = "write"
    /\ cfgdb' = set_entry(cfgdb, r.name, fvs)
    /\ proc' = [proc EXCEPT ![p] =
                  LET r1 == [r EXCEPT !.events = Append(@, SetEvent(r.name, fvs, now))] IN
                  IF is_fabric_card(r.name)
                  THEN [r1 EXCEPT !.pc = "poll"]
                  ELSE Finish(r1, "applied", 0)]
    /\ UNCHANGED <<smartswitch, dpus, cfgdb0, chassisdb, swss, now>>

(* The poll of both commands waiting for 'up'. *)
expected_up(cmd) == "up"

(* The state the poll waits for: the literal of lines 184 and 227, the     *)
(* state the command has just written.                                     *)
expected(cmd) == target(cmd)

(* ctx.fail of line 82 not ending the command: the timeout is reported and *)
(* the caller goes on to the reconciliation.                               *)
after_poll_timeout_proceeds(r, s) ==
    LET r1 == [r EXCEPT !.reads = @ + 1]
        r2 == [r1 EXCEPT !.counter = @ + 1] IN
    IF s = KeyError THEN Finish(r1, "KeyError", 1)
    ELSE IF s = expected(r.cmd) THEN [r1 EXCEPT !.pc = "asic_list"]
    ELSE IF r2.counter >= TIMEOUT_SECS
         THEN [r2 EXCEPT !.pc = "asic_list", !.outcome = "poll_timeout"]
    ELSE r2

(* The test of line 81 written with > . *)
after_poll_gt(r, s) ==
    LET r1 == [r EXCEPT !.reads = @ + 1]
        r2 == [r1 EXCEPT !.counter = @ + 1] IN
    IF s = KeyError THEN Finish(r1, "KeyError", 1)
    ELSE IF s = expected(r.cmd) THEN [r1 EXCEPT !.pc = "asic_list"]
    ELSE IF r2.counter > TIMEOUT_SECS THEN Finish(r2, "poll_timeout", 2)
    ELSE r2

(* One turn of the loop of lines 77-84 on reading state s: a match leaves  *)
(* the loop (return False) and the caller reconciles; a mismatch sleeps    *)
(* and counts, and at TIMEOUT_SECS ctx.fail ends the command.              *)
after_poll(r, s) ==
    LET r1 == [r EXCEPT !.reads = @ + 1]
        r2 == [r1 EXCEPT !.counter = @ + 1] IN
    IF s = KeyError THEN Finish(r1, "KeyError", 1)
    ELSE IF s = expected(r.cmd) THEN [r1 EXCEPT !.pc = "asic_list"]
    ELSE IF r2.counter >= TIMEOUT_SECS THEN Finish(r2, "poll_timeout", 2)
    ELSE r2

(* check_config_module_state_with_timeout: one turn of the loop, the read  *)
(* of line 78 and, on a mismatch, the sleep and the count (lines 79-83).   *)
Poll(p) ==
    LET r == proc[p] IN
    /\ r.pc = "poll"
    /\ proc' = [proc EXCEPT ![p] =
                  after_poll(r, get_config_module_state(cfgdb, r.name))]
    /\ UNCHANGED <<smartswitch, dpus, cfgdb, cfgdb0, chassisdb, swss, now>>

(* The 'up' branch resetting the restart count as the 'down' branch does. *)
first_command_reset(state) == IF state = "down" THEN "stop" ELSE "restart"

(* The branch of lines 109 and 132: 'down' begins with the stop loop, 'up' *)
(* is the start loop.                                                      *)
first_command(state) == IF state = "down" THEN "stop" ELSE "start"

(* fabric_module_set_admin_status: the binding lookup (lines 102-107) *)
AsicList(p) ==
    LET r == proc[p] IN
    /\ r.pc = "asic_list"
    /\ \E l \in get_asic_list_from_db(chassisdb, r.name) :
         proc' = [proc EXCEPT ![p] =
                    IF Len(l) = 0 THEN Finish(r, "applied", 0)
                    ELSE [r EXCEPT !.asic_list = l, !.i = 1,
                                   !.pc = first_command(target(r.cmd))]]
    /\ UNCHANGED <<smartswitch, dpus, cfgdb, cfgdb0, chassisdb, swss, now>>

(* systemctl stop swss@N.service, for each bound ASIC (lines 110-112) *)
Stop(p) ==
    LET r == proc[p]
        r1 == [r EXCEPT !.events = Append(@, Systemctl("stop", r.asic_list[r.i]))] IN
    /\ r.pc = "stop"
    /\ \E failed \in BOOLEAN : swss' = systemctl_stop(swss, r.asic_list[r.i], failed)
    /\ proc' = [proc EXCEPT ![p] =
                  IF r.i < Len(r.asic_list) THEN [r1 EXCEPT !.i = @ + 1]
                  ELSE [r1 EXCEPT !.pc = "is_active"]]
    /\ UNCHANGED <<smartswitch, dpus, cfgdb, cfgdb0, chassisdb, now>>

(* The test of line 116 inverted. *)
after_is_active_inverted(r, is_active) ==
    IF is_active # 0 THEN Finish(r, "stop_failed", 0)
    ELSE [r EXCEPT !.pc = "delete", !.i = 1]

(* The return of line 118 left out. *)
after_is_active_falls_through(r, is_active) ==
    [r EXCEPT !.pc = "delete", !.i = 1]

(* Lines 116-120: zero is active, non-zero inactive; when the service is   *)
(* still active the function echoes the failure and returns.               *)
after_is_active(r, is_active) ==
    IF is_active = 0 THEN Finish(r, "stop_failed", 0)
    ELSE [r EXCEPT !.pc = "delete", !.i = 1]

(* The check made on the first ASIC of the list. *)
checked_asic_first(asic_list) == asic_list[1]

(* Line 114 uses asic, the variable of the loop of lines 110-112: its     *)
(* value is the last ASIC of the list.                                    *)
checked_asic(asic_list) == asic_list[Len(asic_list)]

(* systemctl is-active swss@N.service, N the loop's last ASIC (lines       *)
(* 114-118).                                                               *)
IsActive(p) ==
    LET r == proc[p]
        asic == checked_asic(r.asic_list)
        is_active == systemctl_is_active(swss, asic)
        r1 == [r EXCEPT !.events = Append(@, IsActiveEvent(asic, is_active))] IN
    /\ r.pc = "is_active"
    /\ proc' = [proc EXCEPT ![p] = after_is_active(r1, is_active)]
    /\ UNCHANGED <<smartswitch, dpus, cfgdb, cfgdb0, chassisdb, swss, now>>

(* chassisdb.delete(... "CHASSIS_FABRIC_ASIC_TABLE|asic" + str(asic)), for *)
(* each bound ASIC (lines 122-123)                                         *)
Delete(p) ==
    LET r == proc[p]
        key == asic_key(r.asic_list[r.i])
        r1 == [r EXCEPT !.events = Append(@, DeleteEvent(key))] IN
    /\ r.pc = "delete"
    /\ chassisdb' = delete(chassisdb, key)
    /\ proc' = [proc EXCEPT ![p] =
                  IF r.i < Len(r.asic_list) THEN [r1 EXCEPT !.i = @ + 1]
                  ELSE [r1 EXCEPT !.pc = "restart", !.i = 1]]
    /\ UNCHANGED <<smartswitch, dpus, cfgdb, cfgdb0, swss, now>>

(* systemctl reset-failed, then systemctl start, for each bound ASIC       *)
(* (lines 127-131)                                                         *)
Restart(p) ==
    LET r == proc[p]
        asic == r.asic_list[r.i]
        r1 == [r EXCEPT !.events = @ \o <<Systemctl("reset-failed", asic),
                                          Systemctl("start", asic)>>] IN
    /\ r.pc = "restart"
    /\ swss' = systemctl_start(swss, asic)
    /\ proc' = [proc EXCEPT ![p] =
                  IF r.i < Len(r.asic_list) THEN [r1 EXCEPT !.i = @ + 1]
                  ELSE Finish(r1, "applied", 0)]
    /\ UNCHANGED <<smartswitch, dpus, cfgdb, cfgdb0, chassisdb, now>>

(* systemctl start swss@N.service, for each bound ASIC (lines 132-135) *)
Start(p) ==
    LET r == proc[p]
        r1 == [r EXCEPT !.events = Append(@, Systemctl("start", r.asic_list[r.i]))] IN
    /\ r.pc = "start"
    /\ swss' = systemctl_start(swss, r.asic_list[r.i])
    /\ proc' = [proc EXCEPT ![p] =
                  IF r.i < Len(r.asic_list) THEN [r1 EXCEPT !.i = @ + 1]
                  ELSE Finish(r1, "applied", 0)]
    /\ UNCHANGED <<smartswitch, dpus, cfgdb, cfgdb0, chassisdb, now>>

Step(p) ==
    \/ GetState(p)
    \/ GetTip(p)
    \/ TimedOut(p)
    \/ ClearGet(p)
    \/ ClearSet(p)
    \/ Write(p)
    \/ Poll(p)
    \/ AsicList(p)
    \/ Stop(p)
    \/ IsActive(p)
    \/ Delete(p)
    \/ Restart(p)
    \/ Start(p)

(* One operator session: a command starts when the previous one is over. *)
Next ==
    \/ Tick
    \/ \E cmd \in Cmds, name \in ModuleNames : Invoke(1, cmd, name)
    \/ Step(1)

Spec == Init /\ [][Next]_vars

(* Two sessions, each running one command on the same module; the steps of *)
(* the two commands interleave.  The clock is set before the first command *)
(* starts: the two commands overlap within one instant.                    *)
InitConc ==
    /\ Init
    /\ dpus = ModuleNames
    /\ chassisdb = [k \in AsicKeys |-> FABRIC_CARD1]

NextConc ==
    \/ Tick /\ \A q \in Procs : proc[q].pc = "idle"
    \/ \E p \in Procs, cmd \in Cmds, name \in ModuleNames :
          /\ proc[p].pc = "idle"
          /\ \A q \in Procs : proc[q].pc # "idle" => proc[q].name = name
          /\ Invoke(p, cmd, name)
    \/ \E p \in Procs : Step(p)

SpecConc == InitConc /\ [][NextConc]_vars

(* CONFIG_DB is shared: while the command polls the module's admin state   *)
(* (the loop of lines 78-83 waits for it), another writer may set it.      *)
ExternalWrite ==
    /\ proc[1].pc = "poll"
    /\ \E a \in {"up", "down"} :
          cfgdb' = set_entry(cfgdb, proc[1].name, [admin_status |-> a])
    /\ UNCHANGED <<smartswitch, dpus, cfgdb0, chassisdb, swss, now, proc>>

(* One session, with another writer of the record of the module polled. *)
InitEnv ==
    /\ Init
    /\ dpus = ModuleNames
    /\ cfgdb[ROUTER7] = NoEntry
    /\ chassisdb = [k \in AsicKeys |-> IF k = <<3>> THEN FABRIC_CARD1 ELSE FABRIC_CARD2]

NextEnv ==
    \/ Tick
    \/ \E cmd \in Cmds, name \in ModuleNames : Invoke(1, cmd, name)
    \/ Step(1)
    \/ ExternalWrite

SpecEnv == InitEnv /\ [][NextEnv]_vars

----------------------------------------------------------------------------
(* Vocabulary of the properties.  An invocation p is over when Done(p);    *)
(* proc[p].rec0 and proc[p].t0 are the module's record and the clock when  *)
(* it started, proc[p].events what it did, in order.                       *)

Done(p) == proc[p].pc = "done"

Wanted(cmd) == IF cmd = "shutdown" THEN "down" ELSE "up"

(* The request got past the argument checks. *)
Accepted(p) ==
    /\ smartswitch => proc[p].name \in dpus
    /\ proc[p].cmd = "shutdown" => proc[p].name[1] \in ModulePrefixes

WriteEvents(p) == {i \in 1..Len(proc[p].events) : proc[p].events[i].op = "set_entry"}

ServiceEvents(p) ==
    {i \in 1..Len(proc[p].events) : proc[p].events[i].op \in {"systemctl", "delete"}}

StillActive(p) ==
    \E i \in 1..Len(proc[p].events) :
        proc[p].events[i].op = "is-active" /\ proc[p].events[i].rc = 0

(* A record with admin_status whose transition is in progress since a     *)
(* parseable time. *)
HasTransition(fvs) ==
    /\ {"admin_status", "state_transition_in_progress", "transition_start_time"}
          \subseteq DOMAIN fvs
    /\ fvs["state_transition_in_progress"] = "True"
    /\ fvs["transition_start_time"][1] = "iso"

StartedAt(fvs) == fvs["transition_start_time"][2]

(* The admin state of a record as section 3 of the specification gives it. *)
AdminState(fvs) ==
    IF DOMAIN fvs = {} THEN (IF smartswitch THEN "down" ELSE "up")
    ELSE IF "admin_status" \in DOMAIN fvs THEN fvs["admin_status"] ELSE "none"

----------------------------------------------------------------------------
(* C1: on a smartswitch, while a module's record has admin_status and a     *)
(* transition in progress whose start time is at most 240 seconds old, a    *)
(* shutdown or startup request for the module writes nothing to the record, *)
(* and an accepted request toward the other admin state is reported as      *)
(* 'state transition is already in progress'.                               *)
C1_InProgressRejected ==
    \A p \in Procs :
        (/\ smartswitch
         /\ Done(p)
         /\ HasTransition(proc[p].rec0)
         /\ now - StartedAt(proc[p].rec0) <= 240)
        => /\ WriteEvents(p) = {}
           /\ cfgdb[proc[p].name] = proc[p].rec0
           /\ (Accepted(p) /\ Wanted(proc[p].cmd) # proc[p].rec0["admin_status"])
                 => (proc[p].outcome = "in_progress" /\ proc[p].rc = 0)

C1_Witness ==
    \E p \in Procs :
        /\ smartswitch
        /\ Done(p)
        /\ HasTransition(proc[p].rec0)
        /\ proc[p].t0 - StartedAt(proc[p].rec0) = 240
        /\ now = proc[p].t0
        /\ proc[p].outcome = "in_progress"

(* C2: of two shutdown/startup invocations for one module that run          *)
(* concurrently on a smartswitch, from a record with no transition in       *)
(* progress, at most one performs the admin_status write.                   *)
Approved(p) ==
    \E i \in WriteEvents(p) : "admin_status" \in DOMAIN proc[p].events[i].data

C2_AtMostOneApproved ==
    (/\ smartswitch
     /\ \A p \in Procs : proc[p].pc # "idle"
     /\ proc[1].name = proc[2].name
     /\ get_state_transition_in_progress(cfgdb0, proc[1].name) # "True")
    => ~(Approved(1) /\ Approved(2))

(* C3: on a smartswitch, an accepted request toward the other admin state   *)
(* on a record whose transition started more than 240 seconds ago first     *)
(* writes the record with the flag 'False' and the timestamp removed, then  *)
(* writes {admin_status: target, state_transition_in_progress: 'True',      *)
(* transition_start_time: the time of that write}, which is the record it   *)
(* leaves.                                                                  *)
C3_TimeoutReclaim ==
    \A p \in Procs :
        (/\ smartswitch
         /\ Done(p)
         /\ Accepted(p)
         /\ HasTransition(proc[p].rec0)
         /\ proc[p].t0 - StartedAt(proc[p].rec0) > 240
         /\ Wanted(proc[p].cmd) # proc[p].rec0["admin_status"])
        => LET ev == proc[p].events
               r0 == proc[p].rec0 IN
           /\ Len(ev) >= 2
           /\ WriteEvents(p) = {1, 2}
           /\ ev[1].key = proc[p].name
           /\ ev[1].data =
                [f \in (DOMAIN r0) \ {"transition_start_time"} |->
                    IF f = "state_transition_in_progress" THEN "False" ELSE r0[f]]
           /\ ev[2].key = proc[p].name
           /\ ev[2].data =
                [admin_status |-> Wanted(proc[p].cmd),
                 state_transition_in_progress |-> "True",
                 transition_start_time |-> <<"iso", ev[2].at>>]
           /\ proc[p].t0 <= ev[2].at /\ ev[2].at <= now
           /\ cfgdb[proc[p].name] = ev[2].data

C3_Witness ==
    \E p \in Procs :
        /\ smartswitch
        /\ Done(p)
        /\ HasTransition(proc[p].rec0)
        /\ proc[p].t0 - StartedAt(proc[p].rec0) > 240
        /\ proc[p].cmd = "startup"
        /\ proc[p].outcome = "applied"
        /\ Len(proc[p].events) >= 2

(* C4, as stated: once a record's transition has been in progress for more  *)
(* than 240 seconds, after any accepted shutdown or startup request,        *)
(* whichever state it names, the record no longer carries the flag with the *)
(* old start time.                                                          *)
StaleFlagLeft(p) ==
    LET fvs == cfgdb[proc[p].name] IN
    /\ "state_transition_in_progress" \in DOMAIN fvs
    /\ fvs["state_transition_in_progress"] = "True"
    /\ "transition_start_time" \in DOMAIN fvs
    /\ fvs["transition_start_time"] = proc[p].rec0["transition_start_time"]

C4_AnyRequestClears ==
    \A p \in Procs :
        (/\ smartswitch
         /\ Done(p)
         /\ Accepted(p)
         /\ HasTransition(proc[p].rec0)
         /\ proc[p].t0 - StartedAt(proc[p].rec0) > 240)
        => ~StaleFlagLeft(p)

(* C4, amended: once a record's transition has been in progress for more    *)
(* than 240 seconds (by a parseable start time), an accepted request whose  *)
(* target differs from the record's admin_status leaves the record without  *)
(* the stale flag and old start time; an accepted request that names the    *)
(* record's admin_status leaves the record, stale flag included, as it was. *)
C4_OtherStateRequestClears ==
    \A p \in Procs :
        (/\ smartswitch
         /\ Done(p)
         /\ Accepted(p)
         /\ HasTransition(proc[p].rec0)
         /\ proc[p].t0 - StartedAt(proc[p].rec0) > 240)
        => IF Wanted(proc[p].cmd) # proc[p].rec0["admin_status"]
           THEN /\ ~StaleFlagLeft(p)
                /\ StartedAt(cfgdb[proc[p].name]) >= proc[p].t0
           ELSE /\ StaleFlagLeft(p)
                /\ cfgdb[proc[p].name] = proc[p].rec0

C4_Witness ==
    \E p \in Procs :
        /\ smartswitch
        /\ Done(p)
        /\ HasTransition(proc[p].rec0)
        /\ proc[p].t0 - StartedAt(proc[p].rec0) > 240
        /\ proc[p].cmd = "shutdown"
        /\ proc[p].rec0["admin_status"] = "up"
        /\ ~StaleFlagLeft(p)

(* C5: every record the commands write (the intermediate write of the       *)
(* reclaim path included) has transition_start_time exactly when its        *)
(* state_transition_in_progress is 'True' on a smartswitch, and neither     *)
(* field on any other platform.                                             *)
C5_FieldPairing ==
    \A p \in Procs : \A i \in WriteEvents(p) :
        LET fvs == proc[p].events[i].data IN
        IF smartswitch
        THEN ("transition_start_time" \in DOMAIN fvs)
               <=> (/\ "state_transition_in_progress" \in DOMAIN fvs
                    /\ fvs["state_transition_in_progress"] = "True")
        ELSE /\ "transition_start_time" \notin DOMAIN fvs
             /\ "state_transition_in_progress" \notin DOMAIN fvs

C5_Witness ==
    \E p \in Procs :
        /\ smartswitch
        /\ proc[p].pc = "write"
        /\ WriteEvents(p) = {1}
        /\ "comment" \notin DOMAIN cfgdb[proc[p].name]
        /\ cfgdb[proc[p].name]["state_transition_in_progress"] = "False"
        /\ "transition_start_time" \notin DOMAIN cfgdb[proc[p].name]

(* C6: an accepted shutdown of a module whose admin state is 'down', or     *)
(* startup of one whose admin state is 'up', does nothing (no write, no     *)
(* service command, no row deletion) and reports 'already in ... state'.    *)
C6_AlreadyInTargetState ==
    \A p \in Procs :
        (/\ Done(p)
         /\ Accepted(p)
         /\ AdminState(proc[p].rec0) = Wanted(proc[p].cmd))
        => /\ proc[p].events = <<>>
           /\ cfgdb[proc[p].name] = proc[p].rec0
           /\ proc[p].outcome = "already"
           /\ proc[p].rc = 0

C6_Witness ==
    \E p \in Procs :
        /\ Done(p)
        /\ ~smartswitch
        /\ proc[p].cmd = "startup"
        /\ proc[p].name = FABRIC_CARD1
        /\ proc[p].rec0 = [admin_status |-> "up"]
        /\ proc[p].outcome = "already"

(* C7: for a module that has no record get_config_module_state returns      *)
(* 'down' on a smartswitch and 'up' elsewhere; so on a smartswitch an       *)
(* accepted shutdown of such a module reports 'already down' and writes     *)
(* nothing.                                                                 *)
C7_DefaultState ==
    /\ \A n \in ModuleNames :
          cfgdb[n] = NoEntry =>
             get_config_module_state(cfgdb, n) = IF smartswitch THEN "down" ELSE "up"
    /\ \A p \in Procs :
          (/\ smartswitch
           /\ Done(p)
           /\ Accepted(p)
           /\ proc[p].cmd = "shutdown"
           /\ proc[p].rec0 = NoEntry)
          => /\ proc[p].outcome = "already"
             /\ WriteEvents(p) = {}
             /\ cfgdb[proc[p].name] = NoEntry

C7_Witness ==
    \E p \in Procs :
        /\ smartswitch
        /\ Done(p)
        /\ proc[p].cmd = "shutdown"
        /\ proc[p].name = DPU0
        /\ proc[p].rec0 = NoEntry
        /\ proc[p].outcome = "already"

(* C8: in a 'down' reconciliation, once the is-active check has reported    *)
(* the service still active, the invocation deletes no row of               *)
(* CHASSIS_FABRIC_ASIC_TABLE and issues no start or reset-failed command.   *)
C8_StopFailureLeavesRows ==
    \A p \in Procs :
        StillActive(p) =>
            \A i \in 1..Len(proc[p].events) :
                LET e == proc[p].events[i] IN
                /\ e.op # "delete"
                /\ e.op = "systemctl" => e.verb = "stop"

C8_Witness ==
    \E p \in Procs :
        /\ Done(p)
        /\ StillActive(p)
        /\ Len(proc[p].asic_list) = 2
        /\ \A k \in AsicKeys : chassisdb[k] = FABRIC_CARD1

(* C9, as stated: a shutdown whose service-stop verification fails ends     *)
(* with a failure status.                                                   *)
C9_StopFailureIsFatal ==
    \A p \in Procs : (Done(p) /\ StillActive(p)) => proc[p].rc # 0

(* C9, amended: a shutdown whose service-stop verification fails echoes     *)
(* 'Stop swss@N and peer services failed' and then returns normally: the    *)
(* check is the last thing the command does and its exit status is 0.       *)
C9_StopFailureReturns ==
    \A p \in Procs :
        StillActive(p) =>
            /\ Done(p)
            /\ proc[p].outcome = "stop_failed"
            /\ proc[p].rc = 0
            /\ proc[p].events[Len(proc[p].events)].op = "is-active"

C9_Witness ==
    \E p \in Procs :
        /\ Done(p)
        /\ StillActive(p)
        /\ proc[p].cmd = "shutdown"
        /\ proc[p].outcome = "stop_failed"
        /\ Len(proc[p].asic_list) = 1

(* C10: a shutdown whose module name has none of the four prefixes fails    *)
(* with a usage error before it reads or writes the store or runs a         *)
(* service command; the store is as it was.                                 *)
C10_BadPrefixRejected ==
    \A p \in Procs :
        (/\ proc[p].pc # "idle"
         /\ proc[p].cmd = "shutdown"
         /\ proc[p].name[1] \notin {"SUPERVISOR", "LINE-CARD", "FABRIC-CARD", "DPU"})
        => /\ Done(p)
           /\ proc[p].outcome = "usage_error"
           /\ proc[p].rc = 2
           /\ proc[p].reads = 0
           /\ proc[p].events = <<>>
           /\ cfgdb[proc[p].name] = proc[p].rec0

C10_Witness ==
    \E p \in Procs :
        /\ Done(p)
        /\ proc[p].cmd = "shutdown"
        /\ proc[p].name = ROUTER7
        /\ ~smartswitch
        /\ proc[p].outcome = "usage_error"

(* C11: a startup whose module name has none of the four prefixes is       *)
(* rejected before any state is touched: it neither writes nor deletes a   *)
(* CHASSIS_MODULE record.                                                  *)
C11_StartupBadPrefixRejected ==
    \A p \in Procs :
        (/\ proc[p].pc # "idle"
         /\ proc[p].cmd = "startup"
         /\ proc[p].name[1] \notin {"SUPERVISOR", "LINE-CARD", "FABRIC-CARD", "DPU"})
        => /\ WriteEvents(p) = {}
           /\ cfgdb[proc[p].name] = proc[p].rec0

(* C12: a request rejected as a duplicate in-progress transition is over   *)
(* with that message and exit status 0, having written nothing; on a       *)
(* fabric card neither the poll nor the binding lookup nor any service     *)
(* command or row deletion has run.                                        *)
C12_DuplicateIsNoOp ==
    \A p \in Procs :
        proc[p].outcome = "in_progress"
        => /\ Done(p)
           /\ proc[p].rc = 0
           /\ proc[p].events = <<>>
           /\ proc[p].counter = 0
           /\ proc[p].reads = 3
           /\ proc[p].asic_list = <<>>
           /\ cfgdb[proc[p].name] = proc[p].rec0

C12_Witness ==
    \E p \in Procs :
        /\ Done(p)
        /\ proc[p].outcome = "in_progress"
        /\ proc[p].name = FABRIC_CARD1
        /\ \E k \in AsicKeys : chassisdb[k] = FABRIC_CARD1

(* C13: is_transition_timed_out is false for a start time that does not    *)
(* parse, at every instant; so on a smartswitch a record with admin_status, *)
(* the flag 'True' and such a start time is never changed by the commands: *)
(* an accepted request toward the other admin state is rejected as a       *)
(* duplicate.                                                              *)
Unparseable(fvs) ==
    /\ {"admin_status", "state_transition_in_progress", "transition_start_time"}
          \subseteq DOMAIN fvs
    /\ fvs["state_transition_in_progress"] = "True"
    /\ fvs["transition_start_time"][1] # "iso"

C13_MalformedTimestampBlocks ==
    /\ \A n \in ModuleNames : \A t \in Instants :
          ("transition_start_time" \in DOMAIN cfgdb[n]
              /\ cfgdb[n]["transition_start_time"][1] # "iso")
          => is_transition_timed_out(cfgdb, n, t) = FALSE
    /\ smartswitch =>
          \A n \in ModuleNames : Unparseable(cfgdb0[n]) => cfgdb[n] = cfgdb0[n]
    /\ \A p \in Procs :
          (/\ smartswitch
           /\ Done(p)
           /\ Accepted(p)
           /\ Unparseable(proc[p].rec0)
           /\ Wanted(proc[p].cmd) # proc[p].rec0["admin_status"])
          => proc[p].outcome = "in_progress"

C13_Witness ==
    \E p \in Procs :
        /\ smartswitch
        /\ Done(p)
        /\ Unparseable(proc[p].rec0)
        /\ proc[p].t0 > TRANSITION_TIMEOUT
        /\ proc[p].outcome = "in_progress"

(* C14: when the admin-state poll times out (TIMEOUT_SECS mismatching       *)
(* reads) the command is over with a usage error, and it has looked up no  *)
(* ASIC binding, issued no service command and deleted no row.             *)
C14_PollTimeoutAborts ==
    \A p \in Procs :
        (proc[p].outcome = "poll_timeout" \/ proc[p].counter >= 10)
        => /\ Done(p)
           /\ proc[p].outcome = "poll_timeout"
           /\ proc[p].rc # 0
           /\ proc[p].counter = 10
           /\ proc[p].asic_list = <<>>
           /\ \A i \in 1..Len(proc[p].events) : proc[p].events[i].op = "set_entry"

C14_Witness ==
    \E p \in Procs :
        /\ Done(p)
        /\ proc[p].outcome = "poll_timeout"
        /\ proc[p].cmd = "shutdown"
        /\ \E k \in AsicKeys : chassisdb[k] = proc[p].name

(* C15: get_config_module_state never fails, whatever the store holds: no  *)
(* command ends in an error raised by it.                                  *)
C15_StateNeverFails ==
    \A p \in Procs : proc[p].outcome # "KeyError"

(* C16, as stated: a record created by a shutdown/startup request (the     *)
(* store had none for the module at first) is not deleted by a later       *)
(* request, on any platform.                                               *)
C16_RecordNeverDeleted ==
    \A p \in Procs :
        (/\ proc[p].pc # "idle"
         /\ cfgdb0[proc[p].name] = NoEntry
         /\ proc[p].rec0 # NoEntry)
        => cfgdb[proc[p].name] # NoEntry

(* C16, amended: on a smartswitch a module record that exists when a       *)
(* request starts exists at every step of the request and after it; on     *)
(* any other platform an accepted startup of a module whose record says    *)
(* 'down' deletes the whole record.                                        *)
C16_DeletedOnlyByPlainStartup ==
    \A p \in Procs :
        /\ (smartswitch /\ proc[p].pc # "idle" /\ proc[p].rec0 # NoEntry)
              => cfgdb[proc[p].name] # NoEntry
        /\ (/\ ~smartswitch
            /\ Done(p)
            /\ proc[p].cmd = "startup"
            /\ "admin_status" \in DOMAIN proc[p].rec0
            /\ proc[p].rec0["admin_status"] = "down")
              => cfgdb[proc[p].name] = NoEntry

C16_Witness ==
    \E p \in Procs :
        /\ smartswitch
        /\ Done(p)
        /\ cfgdb0[proc[p].name] = NoEntry
        /\ proc[p].rec0 # NoEntry
        /\ proc[p].cmd = "shutdown"
        /\ proc[p].outcome = "applied"
        /\ Len(proc[p].events) = 2

(* C17: on a platform that is not a smartswitch no request is rejected as  *)
(* a duplicate in-progress transition, whatever the record holds, and an   *)
(* accepted request whose target differs from the module's admin state is  *)
(* applied: it makes one write and the admin state is the target.          *)
C17_PlainPlatformInstantaneous ==
    \A p \in Procs :
        ~smartswitch =>
            /\ proc[p].outcome # "in_progress"
            /\ (/\ Done(p)
                /\ Accepted(p)
                /\ AdminState(proc[p].rec0) \in {"up", "down"}
                /\ AdminState(proc[p].rec0) # Wanted(proc[p].cmd))
               => /\ WriteEvents(p) = {1}
                  /\ proc[p].events[1].key = proc[p].name
                  /\ proc[p].reads >= 1
                  /\ AdminState(cfgdb[proc[p].name]) = Wanted(proc[p].cmd)

C17_Witness ==
    \E p \in Procs :
        /\ ~smartswitch
        /\ Done(p)
        /\ HasTransition(proc[p].rec0)
        /\ proc[p].t0 = 0
        /\ WriteEvents(p) = {1}

(* C18: on a platform that is not a smartswitch an applied shutdown leaves *)
(* the record exactly {admin_status: 'down'} and an applied startup leaves *)
(* no record, so that get_config_module_state returns the target; a        *)
(* startup after a shutdown of a module that had no record at first        *)
(* restores what the store held for it.                                    *)
C18_PlainPlatformRecords ==
    \A p \in Procs :
        (/\ ~smartswitch
         /\ Done(p)
         /\ Accepted(p)
         /\ AdminState(proc[p].rec0) \in {"up", "down"}
         /\ AdminState(proc[p].rec0) # Wanted(proc[p].cmd))
        => /\ cfgdb[proc[p].name] =
                 IF proc[p].cmd = "shutdown" THEN [admin_status |-> "down"] ELSE NoEntry
           /\ get_config_module_state(cfgdb, proc[p].name) = Wanted(proc[p].cmd)
           /\ (proc[p].cmd = "startup" /\ cfgdb0[proc[p].name] = NoEntry)
                 => cfgdb[proc[p].name] = cfgdb0[proc[p].name]

C18_Witness ==
    \E p \in Procs :
        /\ ~smartswitch
        /\ Done(p)
        /\ proc[p].cmd = "startup"
        /\ cfgdb0[proc[p].name] = NoEntry
        /\ proc[p].rec0 = [admin_status |-> "down"]
        /\ cfgdb = cfgdb0

(* C19: on a smartswitch, once a request has made its write the record is  *)
(* exactly {admin_status: target, state_transition_in_progress: 'True',    *)
(* transition_start_time: the time of the write}, no field of the former   *)
(* record is left, and get_config_module_state returns the target.         *)
RequestWritten(p) == WriteEvents(p) # {} /\ proc[p].pc # "write"

LastWrite(p) ==
    proc[p].events[CHOOSE i \in WriteEvents(p) : \A j \in WriteEvents(p) : j <= i]

C19_WholeRecordReplace ==
    \A p \in Procs :
        (smartswitch /\ RequestWritten(p))
        => /\ LastWrite(p).data =
                 [admin_status |-> Wanted(proc[p].cmd),
                  state_transition_in_progress |-> "True",
                  transition_start_time |-> <<"iso", LastWrite(p).at>>]
           /\ cfgdb[proc[p].name] = LastWrite(p).data
           /\ DOMAIN cfgdb[proc[p].name] =
                 {"admin_status", "state_transition_in_progress", "transition_start_time"}
           /\ get_config_module_state(cfgdb, proc[p].name) = Wanted(proc[p].cmd)

C19_Witness ==
    \E p \in Procs :
        /\ smartswitch
        /\ Done(p)
        /\ "comment" \in DOMAIN proc[p].rec0
        /\ RequestWritten(p)
        /\ "comment" \notin DOMAIN cfgdb[proc[p].name]

(* C20: a finished 'down' reconciliation with a non-empty binding has      *)
(* issued, in this order: a stop for every bound ASIC; one is-active       *)
(* check, of the last bound ASIC; and, exactly when that check reported    *)
(* the service inactive, a deletion of every bound ASIC's row followed by  *)
(* reset-failed and then start for every bound ASIC.                       *)
KeyOf(n) == IF n < 10 THEN <<n>> ELSE <<n \div 10, n % 10>>

C20_DownReconciliationOrder ==
    \A p \in Procs :
        (Done(p) /\ proc[p].cmd = "shutdown" /\ proc[p].asic_list # <<>>)
        => LET ev == proc[p].events
               al == proc[p].asic_list
               n == Len(al)
               b == Cardinality(WriteEvents(p)) IN
           /\ Len(ev) >= b + n + 1
           /\ \A j \in 1..n :
                 /\ ev[b + j].op = "systemctl"
                 /\ ev[b + j].verb = "stop"
                 /\ ev[b + j].asic = al[j]
           /\ ev[b + n + 1].op = "is-active"
           /\ ev[b + n + 1].asic = al[n]
           /\ IF ev[b + n + 1].rc = 0
              THEN Len(ev) = b + n + 1
              ELSE /\ Len(ev) = b + 4 * n + 1
                   /\ \A j \in 1..n :
                         /\ ev[b + n + 1 + j].op = "delete"
                         /\ ev[b + n + 1 + j].key = KeyOf(al[j])
                   /\ \A j \in 1..n :
                         /\ ev[b + 2 * n + 2 * j].op = "systemctl"
                         /\ ev[b + 2 * n + 2 * j].verb = "reset-failed"
                         /\ ev[b + 2 * n + 2 * j].asic = al[j]
                         /\ ev[b + 2 * n + 2 * j + 1].op = "systemctl"
                         /\ ev[b + 2 * n + 2 * j + 1].verb = "start"
                         /\ ev[b + 2 * n + 2 * j + 1].asic = al[j]

C20_Witness ==
    \E p \in Procs :
        /\ Done(p)
        /\ proc[p].cmd = "shutdown"
        /\ Len(proc[p].asic_list) = 2
        /\ proc[p].outcome = "applied"
        /\ \A k \in AsicKeys : chassisdb[k] = NoRow

(* C21: at the end of every shutdown of a fabric card that issued a stop   *)
(* for a bound ASIC's service, that service is running: whatever the       *)
(* request stopped it has started again.                                   *)
StopsOf(p) ==
    {i \in 1..Len(proc[p].events) :
        proc[p].events[i].op = "systemctl" /\ proc[p].events[i].verb = "stop"}

C21_ServicesLeftRunning ==
    \A p \in Procs :
        (Done(p) /\ proc[p].cmd = "shutdown")
        => \A i \in StopsOf(p) : swss[proc[p].events[i].asic]

(* C22: the admin-state poll ends at the first read that matches the       *)
(* target, sleeps once after every read that does not, and fails with the  *)
(* timeout after 10 reads none of which matched; it makes at most 10 reads *)
(* and 10 sleeps and writes nothing.                                       *)
(* The reads of the record a command makes before it polls: one by the     *)
(* state test, one by the flag test of a smartswitch, and two more where   *)
(* a timed-out transition was cleared.                                     *)
ReadsBeforePoll(p) ==
    1 + (IF smartswitch
         THEN 1 + (IF Cardinality(WriteEvents(p)) = 2 THEN 2 ELSE 0)
         ELSE 0)

PollReads(p) == proc[p].reads - ReadsBeforePoll(p)

Polled(p) ==
    \/ proc[p].pc \in {"asic_list", "stop", "is_active", "delete", "restart", "start"}
    \/ /\ Done(p)
       /\ proc[p].name[1] = "FABRIC-CARD"
       /\ proc[p].outcome \in {"applied", "stop_failed"}

C22_PollTerminates ==
    \A p \in Procs :
        /\ proc[p].counter <= 10
        /\ proc[p].pc = "poll" =>
              /\ proc[p].counter <= 9
              /\ PollReads(p) = proc[p].counter
              /\ WriteEvents(p) = 1..Len(proc[p].events)
        /\ Polled(p) =>
              /\ proc[p].counter <= 9
              /\ PollReads(p) = proc[p].counter + 1
              /\ \A i \in WriteEvents(p) : \A j \in 1..i : j \in WriteEvents(p)
        /\ proc[p].outcome = "poll_timeout" =>
              /\ Done(p)
              /\ proc[p].rc # 0
              /\ proc[p].counter = 10
              /\ PollReads(p) = 10
              /\ WriteEvents(p) = 1..Len(proc[p].events)
        /\ (proc[p].pc # "idle" /\ proc[p].name[1] # "FABRIC-CARD") => proc[p].counter = 0

C22_Witness ==
    \E p \in Procs :
        /\ Done(p)
        /\ proc[p].outcome = "applied"
        /\ proc[p].counter = 9
        /\ PollReads(p) = 10
        /\ ServiceEvents(p) # {}

(* C23: an invocation issues service commands and row deletions only for  *)
(* a module whose name begins with FABRIC-CARD, only after its write of    *)
(* the record and after a read of the poll has found the target state, and *)
(* in the direction of its target: a startup issues start commands only, a *)
(* shutdown begins with a stop.  An invocation for any other module never  *)
(* polls, looks up the ASIC binding or issues a service command.           *)
Reconciling(p) ==
    proc[p].pc \in {"asic_list", "stop", "is_active", "delete", "restart", "start"}

C23_ReconcileOnlyFabricAfterWrite ==
    \A p \in Procs :
        /\ (proc[p].pc # "idle" /\ proc[p].name[1] # "FABRIC-CARD") =>
              /\ ~Reconciling(p) /\ proc[p].pc # "poll"
              /\ ServiceEvents(p) = {}
              /\ proc[p].asic_list = <<>>
        /\ proc[p].pc = "asic_list" =>
              /\ AdminState(cfgdb[proc[p].name]) = Wanted(proc[p].cmd)
              /\ ServiceEvents(p) = {}
        /\ (Reconciling(p) \/ ServiceEvents(p) # {}) =>
              /\ proc[p].name[1] = "FABRIC-CARD"
              /\ WriteEvents(p) # {}
              /\ \A i \in WriteEvents(p), j \in ServiceEvents(p) : i < j
              /\ proc[p].events[Cardinality(WriteEvents(p))].key = proc[p].name
              /\ AdminState(proc[p].events[Cardinality(WriteEvents(p))].data)
                    = Wanted(proc[p].cmd)
              /\ proc[p].counter < 10
              /\ proc[p].outcome # "poll_timeout"
              /\ \A j \in ServiceEvents(p) :
                    IF proc[p].cmd = "startup"
                    THEN /\ proc[p].events[j].op = "systemctl"
                         /\ proc[p].events[j].verb = "start"
                    ELSE \E i \in StopsOf(p) : i <= j

C23_Witness ==
    \E p \in Procs :
        /\ Done(p)
        /\ proc[p].name[1] = "FABRIC-CARD"
        /\ proc[p].cmd = "startup"
        /\ proc[p].counter > 0
        /\ ServiceEvents(p) # {}
        /\ AdminState(cfgdb[proc[p].name]) = "up"

(* C24: a finished 'up' reconciliation with a non-empty binding has issued *)
(* exactly one start command for every bound ASIC's service and nothing    *)
(* else (no stop, no reset-failed, no deletion), and the rows bound to the *)
(* module are the rows it found: no row has been deleted or changed.       *)
BoundKeys(name) == {k \in DOMAIN chassisdb : chassisdb[k] = name}

C24_UpReconciliationOnlyStarts ==
    \A p \in Procs :
        (/\ proc[p].cmd = "startup"
         /\ proc[p].pc # "idle"
         /\ proc[p].asic_list # <<>>)
        => LET ev == proc[p].events
               al == proc[p].asic_list
               b == Cardinality(WriteEvents(p)) IN
           /\ \A j \in ServiceEvents(p) :
                 /\ j > b
                 /\ j - b <= Len(al)
                 /\ ev[j].op = "systemctl"
                 /\ ev[j].verb = "start"
                 /\ ev[j].asic = al[j - b]
           /\ Done(p) => Len(ev) = b + Len(al)
           /\ \A j \in 1..Len(ev) : ev[j].op \in {"set_entry", "systemctl"}
           /\ BoundKeys(proc[p].name) = {KeyOf(al[j]) : j \in 1..Len(al)}
           /\ \A j, k \in 1..Len(al) : al[j] = al[k] => j = k

C24_Witness ==
    \E p \in Procs :
        /\ Done(p)
        /\ proc[p].cmd = "startup"
        /\ Len(proc[p].asic_list) = 2
        /\ Len(proc[p].events) = Cardinality(WriteEvents(p)) + 2
        /\ \A a \in AsicIds : swss[a]

(* C25: when no row of the ASIC table has the module's name, the          *)
(* reconciliation, in either direction, ends the command normally without *)
(* a service command and without a deletion.                              *)
Deletions(p) ==
    {i \in 1..Len(proc[p].events) : proc[p].events[i].op = "delete"}

C25_EmptyBindingNoAction ==
    \A p \in Procs :
        (/\ proc[p].pc # "idle"
         /\ BoundKeys(proc[p].name) = {}
         /\ Deletions(p) = {})
        => /\ ServiceEvents(p) = {}
           /\ proc[p].asic_list = <<>>
           /\ proc[p].pc \notin {"stop", "is_active", "delete", "restart", "start"}
           /\ (Done(p) /\ proc[p].name[1] = "FABRIC-CARD" /\ WriteEvents(p) # {})
                 => (proc[p].outcome = "applied" /\ proc[p].rc = 0)

C25_Witness ==
    \E p \in Procs :
        /\ Done(p)
        /\ proc[p].name = FABRIC_CARD1
        /\ proc[p].cmd = "shutdown"
        /\ WriteEvents(p) # {}
        /\ BoundKeys(FABRIC_CARD1) = {}
        /\ chassisdb[<<3>>] = FABRIC_CARD2
        /\ proc[p].outcome = "applied"

(* C26: the list get_asic_list_from_db returns holds, once each, exactly   *)
(* the trailing integers of the keys whose name field is the module name.  *)
Trailing(k) == IF Len(k) = 1 THEN k[1] ELSE 10 * k[1] + k[2]

C26_BindingIsExact ==
    \A p \in Procs :
        /\ proc[p].pc \in {"stop", "is_active", "start"} =>
              LET al == proc[p].asic_list IN
              /\ {al[j] : j \in 1..Len(al)}
                    = {Trailing(k) : k \in BoundKeys(proc[p].name)}
              /\ Len(al) = Cardinality(BoundKeys(proc[p].name))
              /\ \A k \in DOMAIN chassisdb :
                    chassisdb[k] # proc[p].name =>
                       \A j \in 1..Len(al) : al[j] # Trailing(k)
        /\ (Done(p) /\ Polled(p) /\ proc[p].asic_list = <<>>) =>
              BoundKeys(proc[p].name) = {}

C26_Witness ==
    \E p \in Procs :
        /\ proc[p].pc = "start"
        /\ proc[p].name = FABRIC_CARD1
        /\ proc[p].asic_list = <<12, 3>>
        /\ BoundKeys(FABRIC_CARD1) = {<<3>>, <<1, 2>>}

(* C27: on a smartswitch, with requests one after the other and no other   *)
(* writer, the record an applied request leaves carries the flag 'True'    *)
(* and the time of the write, nothing clears it when the command ends, and *)
(* a request that finds the flag of a request applied at time t is applied *)
(* only if its own write is made later than t + 240 seconds.               *)
FlagTime(fvs) ==
    IF /\ "state_transition_in_progress" \in DOMAIN fvs
       /\ fvs["state_transition_in_progress"] = "True"
       /\ "transition_start_time" \in DOMAIN fvs
       /\ fvs["transition_start_time"][1] = "iso"
    THEN fvs["transition_start_time"][2]
    ELSE -1

C27_NoSecondApprovalWithinTimeout ==
    \A p \in Procs :
        (smartswitch /\ proc[p].pc # "idle") =>
            /\ RequestWritten(p) =>
                  /\ FlagTime(cfgdb[proc[p].name]) = LastWrite(p).at
                  /\ FlagTime(proc[p].rec0) >= 0 =>
                        LastWrite(p).at - FlagTime(proc[p].rec0) > 240
            /\ (FlagTime(proc[p].rec0) >= 0 /\ proc[p].t0 - FlagTime(proc[p].rec0) <= 240
                  /\ now - FlagTime(proc[p].rec0) <= 240) =>
                  /\ WriteEvents(p) = {}
                  /\ FlagTime(cfgdb[proc[p].name]) = FlagTime(proc[p].rec0)

C27_Witness ==
    \E p \in Procs :
        /\ smartswitch
        /\ Done(p)
        /\ FlagTime(cfgdb0[proc[p].name]) = -1
        /\ FlagTime(proc[p].rec0) = 0
        /\ proc[p].t0 = 240
        /\ now = 240
        /\ proc[p].outcome = "in_progress"
        /\ cfgdb[proc[p].name] = proc[p].rec0

(* C28: in a 'down' reconciliation every key deleted is 'asic' followed by *)
(* the id of a bound ASIC and is, when it is deleted, the key of a row     *)
(* whose name is the module name; when the reconciliation has succeeded    *)
(* the keys deleted are exactly those of the rows that were bound to the   *)
(* module and no row bound to the module is left.                          *)
ListKeys(p) == {KeyOf(proc[p].asic_list[j]) : j \in 1..Len(proc[p].asic_list)}

DeletedKeys(p) == {proc[p].events[i].key : i \in Deletions(p)}

C28_DeletesExactlyBoundRows ==
    \A p \in Procs :
        /\ proc[p].pc \in {"stop", "is_active"} =>
              /\ ListKeys(p) = BoundKeys(proc[p].name)
              /\ Deletions(p) = {}
        /\ proc[p].pc = "delete" =>
              /\ DeletedKeys(p) \cup BoundKeys(proc[p].name) = ListKeys(p)
              /\ DeletedKeys(p) \cap BoundKeys(proc[p].name) = {}
              /\ Cardinality(DeletedKeys(p)) = proc[p].i - 1
        /\ (proc[p].pc \in {"restart", "done"} /\ Deletions(p) # {}) =>
              /\ DeletedKeys(p) = ListKeys(p)
              /\ Cardinality(Deletions(p)) = Len(proc[p].asic_list)
              /\ BoundKeys(proc[p].name) = {}
              /\ \A k \in DeletedKeys(p) : chassisdb[k] = NoRow
              /\ proc[p].cmd = "shutdown"

C28_Witness ==
    \E p \in Procs :
        /\ Done(p)
        /\ proc[p].outcome = "applied"
        /\ proc[p].name = FABRIC_CARD1
        /\ DeletedKeys(p) = {<<3>>}
        /\ chassisdb[<<3>>] = NoRow
        /\ chassisdb[<<1, 2>>] = FABRIC_CARD2

(* C29: with requests one after the other and no other writer of the      *)
(* record, the poll that follows the write of a request on a FABRIC-CARD   *)
(* module matches on its first read on either platform, the startup that   *)
(* deletes the record included: it never sleeps and never times out.       *)
C29_PollMatchesAtOnce ==
    \A p \in Procs :
        /\ proc[p].counter = 0
        /\ proc[p].outcome # "poll_timeout"
        /\ proc[p].pc = "poll" =>
              /\ PollReads(p) = 0
              /\ AdminState(cfgdb[proc[p].name]) = Wanted(proc[p].cmd)
        /\ Polled(p) => PollReads(p) = 1
        /\ (Done(p) /\ proc[p].name[1] = "FABRIC-CARD" /\ WriteEvents(p) # {}) => Polled(p)

C29_Witness ==
    \E p \in Procs :
        /\ ~smartswitch
        /\ Done(p)
        /\ proc[p].name = FABRIC_CARD1
        /\ proc[p].cmd = "startup"
        /\ proc[p].rec0 # NoEntry
        /\ cfgdb[FABRIC_CARD1] = NoEntry
        /\ PollReads(p) = 1
        /\ ServiceEvents(p) # {}

(* C30: if at first every CHASSIS_MODULE record has admin_status 'up' or   *)
(* 'down', then after any sequence of shutdown and startup requests, on    *)
(* either platform, every record (the one the timeout-reclaim path writes  *)
(* in between included) has admin_status 'up' or 'down', and no request    *)
(* fails on a missing admin_status.                                        *)
WellFormed(fvs) ==
    DOMAIN fvs # {} => ("admin_status" \in DOMAIN fvs /\ fvs["admin_status"] \in {"up", "down"})

C30_AdminStatusPreserved ==
    (\A n \in ModuleNames : WellFormed(cfgdb0[n]))
    => /\ \A n \in ModuleNames : WellFormed(cfgdb[n])
       /\ \A p \in Procs :
             /\ proc[p].outcome # "KeyError"
             /\ \A i \in WriteEvents(p) : WellFormed(proc[p].events[i].data)
             /\ WellFormed(proc[p].entry)

C30_Witness ==
    \E p \in Procs :
        /\ smartswitch
        /\ \A n \in ModuleNames : WellFormed(cfgdb0[n])
        /\ proc[p].pc = "write"
        /\ WriteEvents(p) = {1}
        /\ cfgdb[proc[p].name]["admin_status"] = "up"
        /\ cfgdb[proc[p].name]["state_transition_in_progress"] = "False"
        /\ "comment" \notin DOMAIN cfgdb0[proc[p].name]
        /\ cfgdb0[proc[p].name] # proc[p].rec0

====
